---- MODULE Spec2Model ----
(***************************************************************************)
(* Model of the execution engine of gpt-translator (src/src/translator.ts, *)
(* with the error taxonomy of errors.ts): the retry policy withRetry and   *)
(* the batch scheduler addTask / processTasks / translate.                 *)
(*                                                                         *)
(* Seven specifications share the module:                                  *)
(*   RetrySpec  one withRetry call, over every configuration and every     *)
(*              sequence of outcomes of the wrapped operation;             *)
(*   Spec       one translate call on a directory;                         *)
(*   FileSpec   two translateFile calls of one batch running concurrently  *)
(*              on the shared options object and the output directory;     *)
(*   PureSpec   one call of formatBilingualContent, of the document        *)
(*              assembly, of calculateCost, of estimateTokenCount or of    *)
(*              estimateUsage;                                             *)
(*   LiveSpec   Spec under the scheduling of the event loop;               *)
(*   ProgressSpec  the progress values one translateFile call reports;     *)
(*   DetectSpec    detectLanguage calls of two units and their cache.      *)
(***************************************************************************)
EXTENDS Integers, Sequences, FiniteSets, TLC

\* ------------------------------------------------------------------ bounds
\* Largest configured retryCount explored (config.retryCount is 0..MaxRetryCount).
MaxRetryCount == 4
\* Largest number of files enumerated in the input directory.
MaxFiles == 3
\* Largest options.concurrency explored.
MaxConcurrency == 2
\* Longest text, in characters, given to the text functions.
MaxTextLen == 3
\* Largest token count given to calculateCost.
MaxTokens == 12
\* Deepest nesting of subdirectories under an input directory.
MaxDepth == 2
\* Most chunks of one stream, and most characters of content in one chunk.
MaxChunks == 3
MaxChunkLen == 2
\* Most detectLanguage calls of one unit.
MaxDetections == 2

\* --------------------------------------------------- program constants
\* config.generateReport as loadConfig sets it when GENERATE_REPORT is not given
generateReport == TRUE
DefaultRetryCount == 3
DefaultRetryDelay == 1000
DefaultMaxRetryDelay == 30000
\* the price `0.2` dollars per million tokens, in tenths of a dollar
DefaultPrice == 2
\* config.maxFileSize, in MB, as loadConfig sets it when MAX_FILE_SIZE is not given
maxFileSize == 10

VARIABLES
    config,      \* this.config: retryCount, retryDelay, maxRetryDelay
    rt,          \* the frame of one withRetry call: locals, outcome, history
    concurrency, \* options.concurrency
    files,       \* the enumerated files: sequence of their sizes in bytes
    phase,       \* position of translate / processTasks
    taskQueue,   \* this.taskQueue: sequence of [priority, unit]
    limitQueue,  \* p-limit's queue of calls waiting for a slot
    active,      \* units whose limited function is executing (activeCount)
    running,     \* processTasks' local set `running`
    results,     \* processTasks' local list `results`
    awaited,     \* the promises handed to Promise.all
    reactions,   \* settled task promises whose .then/.catch handler is pending
    admitted,    \* history: the units in the order processTasks dequeued them
    completed,   \* history: the units in the order their tasks resolved
    unit,        \* per unit: state of its task and how often it was started
    outcome,     \* how the translate call settled
    options,     \* options.languages.source, the object every unit shares
    given,       \* history: options.languages.source as the caller passed it
    autoRename,  \* this.config.autoRename
    disk,        \* the output directory: existing path -> content
    existing,    \* history: the paths that existed before the batch started
    tf,          \* per unit: the frame of its translateFile call
    ignoreEmptyFiles, \* this.config.ignoreEmptyFiles
    call,        \* one call of a pure function: its name, input and output
    pb,          \* one translateFile call as its progress bar sees it
    languageDetectionCache, \* this.languageDetectionCache: hashText(text) -> code
    dl           \* the frame of one detectLanguage call

retryVars == <<config, rt>>
batchVars == <<concurrency, files, phase, taskQueue, limitQueue, active,
               running, results, awaited, reactions, admitted, completed,
               unit, outcome>>
fileVars == <<options, given, autoRename, disk, existing, tf, ignoreEmptyFiles>>
pureVars == <<call>>
progressVars == <<pb>>
detectVars == <<languageDetectionCache, dl>>
vars == <<config, rt, concurrency, files, phase, taskQueue, limitQueue, active,
          running, results, awaited, reactions, admitted, completed,
          unit, outcome, options, given, autoRename, disk, existing, tf,
          ignoreEmptyFiles, call, pb, languageDetectionCache, dl>>

\* ------------------------------------------------------------------ errors
\* An error value.  api: it is an instance of the APIError class; apiCode: its
\* numeric code.  For any other thrown object, status models error.response.status
\* (0: there is no response) and sysCode models error.code.  att is the attempt
\* or unit that raised it (it tells two errors of the same kind apart).
NoError == [api |-> FALSE, status |-> 0, apiCode |-> 0, sysCode |-> "none",
            msg |-> "none", att |-> 0]

APIError(message, code, att) ==
    [api |-> TRUE, status |-> 0, apiCode |-> code, sysCode |-> "none",
     msg |-> message, att |-> att]

HttpError(status, att) ==
    [api |-> FALSE, status |-> status, apiCode |-> 0, sysCode |-> "none",
     msg |-> "http", att |-> att]

SystemError(code, att) ==
    [api |-> FALSE, status |-> 0, apiCode |-> 0, sysCode |-> code,
     msg |-> "system", att |-> att]

\* keys of API_ERRORS
API_ERRORS == {400, 401, 402, 422, 429, 500, 503}

\* response statuses and error codes the remote call is modelled to fail with
HttpStatuses == API_ERRORS \cup {404}
SystemCodes == {"ECONNRESET", "ETIMEDOUT", "ECONNREFUSED", "ENOENT", "EACCES", "EOTHER"}
NetworkCodes == {"ECONNRESET", "ETIMEDOUT", "ECONNREFUSED"}

OperationErrors(att) ==
    {HttpError(s, att) : s \in HttpStatuses} \cup {SystemError(c, att) : c \in SystemCodes}

isRetryableErrorAll(error) ==
    IF error.api THEN TRUE
    ELSE error.sysCode \in NetworkCodes

isRetryableError(error) ==
    IF error.api THEN error.apiCode \in {429, 500, 503}
    ELSE error.sysCode = "ECONNRESET" \/ error.sysCode = "ETIMEDOUT"
         \/ error.sysCode = "ECONNREFUSED"

handleAPIError(error) ==
    IF error.status # 0 /\ error.status \in API_ERRORS
    THEN APIError("api", error.status, error.att)
    ELSE IF error.sysCode = "ECONNRESET" THEN APIError("reset", -1, error.att)
    ELSE IF error.sysCode = "ETIMEDOUT" THEN APIError("timeout", -1, error.att)
    ELSE IF error.sysCode = "ECONNREFUSED" THEN APIError("refused", -1, error.att)
    ELSE IF error.sysCode = "ENOENT" THEN APIError("not_found", -1, error.att)
    ELSE IF error.sysCode = "EACCES" THEN APIError("no_permission", -1, error.att)
    ELSE APIError("unknown", -1, error.att)

\* --------------------------------------------------------------- withRetry
Min(a, b) == IF a <= b THEN a ELSE b

RECURSIVE Pow2(_)
Pow2(n) == IF n <= 0 THEN 1 ELSE 2 * Pow2(n - 1)

\* `x || d` on numbers: 0 is falsy
OrDefault(x, d) == IF x # 0 THEN x ELSE d

baseDelay(c) == OrDefault(c.retryDelay, DefaultRetryDelay)
maxRetries(c) == OrDefault(c.retryCount, DefaultRetryCount)
maxDelay(c) == OrDefault(c.maxRetryDelay, DefaultMaxRetryDelay)

\* the for loop's condition
LoopOneMore(i, n) == i <= n
LoopCondition(i, n) == i < n

\* `if (i < maxRetries - 1)`: a backoff wait follows this failed attempt
WaitCondition(i, n) == i < n - 1

\* `delay = Math.min(delay * Math.pow(2, i), maxDelay)`
BackoffUncapped(delay, i, cap) == delay * Pow2(i)
Backoff(delay, i, cap) == Min(delay * Pow2(i), cap)

\* the frame of a withRetry call as it is entered
withRetryEnter(c) ==
    [pc |-> IF LoopCondition(0, maxRetries(c)) THEN "loop" ELSE "thrown",
     i |-> 0, delay |-> baseDelay(c),
     lastError |-> NoError, thrown |-> NoError, value |-> 0,
     calls |-> 0, errs |-> <<>>, waits |-> <<>>]

\* operation() is invoked in iteration r.i and resolves with value v
AttemptResolves(r, v) ==
    [r EXCEPT !.pc = "returned", !.value = v, !.calls = @ + 1]

\* operation() is invoked in iteration r.i and rejects with error; the catch block
\* runs, and with it the rest of the loop up to the next suspension or the throw
AttemptRejects(r, error, c) ==
    LET apiError == handleAPIError(error)
        seen == [r EXCEPT !.calls = @ + 1, !.errs = Append(@, error),
                          !.lastError = error]
    IN  IF ~isRetryableError(apiError)
        THEN [seen EXCEPT !.pc = "thrown", !.thrown = apiError]
        ELSE IF WaitCondition(r.i, maxRetries(c))
        THEN LET d == Backoff(r.delay, r.i, maxDelay(c))
             IN  [seen EXCEPT !.pc = "sleeping", !.delay = d,
                              !.waits = Append(@, [i |-> r.i, ms |-> d])]
        ELSE IF LoopCondition(r.i + 1, maxRetries(c))
        THEN [seen EXCEPT !.i = @ + 1]
        ELSE [seen EXCEPT !.pc = "thrown", !.thrown = error, !.i = @ + 1]

\* the setTimeout of the backoff fires: i++ and the loop condition is tested
BackoffElapsed(r, c) ==
    IF LoopCondition(r.i + 1, maxRetries(c))
    THEN [r EXCEPT !.pc = "loop", !.i = @ + 1]
    ELSE [r EXCEPT !.pc = "thrown", !.thrown = r.lastError, !.i = @ + 1]

\* ------------------------------------------------- RetrySpec: one withRetry
RetryCounts == 0 .. MaxRetryCount
RetryDelays == {0, 1000, 20000, 40000}
MaxRetryDelays == {0, 3000, 30000}

Configs ==
    [retryCount : RetryCounts, retryDelay : RetryDelays, maxRetryDelay : MaxRetryDelays]

DefaultConfig ==
    [retryCount |-> DefaultRetryCount, retryDelay |-> DefaultRetryDelay,
     maxRetryDelay |-> DefaultMaxRetryDelay]

\* the translate call has not settled
NotSettled == [kind |-> "none", error |-> NoError, results |-> <<>>, report |-> FALSE]

BatchIdle ==
    /\ concurrency = 1
    /\ files = <<>>
    /\ phase = "idle"
    /\ taskQueue = <<>>
    /\ limitQueue = <<>>
    /\ active = {}
    /\ running = {}
    /\ results = <<>>
    /\ awaited = {}
    /\ reactions = <<>>
    /\ admitted = <<>>
    /\ completed = <<>>
    /\ unit = <<>>
    /\ outcome = NotSettled

\* options.languages.source is empty: the language is to be detected
Unresolved == ""

\* no translateFile call is in progress
FilesIdle ==
    /\ options = [source |-> Unresolved]
    /\ given = Unresolved
    /\ autoRename = TRUE
    /\ disk = <<>>
    /\ existing = {}
    /\ tf = <<>>
    /\ ignoreEmptyFiles = TRUE

\* no pure function has been called
NoCall == [fn |-> "none"]

PureIdle == call = NoCall

\* no translateFile call is being watched
NoProgress == [pc |-> "idle"]

ProgressIdle == pb = NoProgress

\* no detectLanguage call has been made
NoDetection == [pc |-> "idle"]

DetectIdle == languageDetectionCache = <<>> /\ dl = NoDetection

RetryInit ==
    /\ config \in Configs
    /\ rt = withRetryEnter(config)
    /\ BatchIdle
    /\ FilesIdle
    /\ PureIdle
    /\ ProgressIdle
    /\ DetectIdle

OperationResolves ==
    /\ rt.pc = "loop"
    /\ rt' = AttemptResolves(rt, 1)
    /\ UNCHANGED <<config, batchVars, fileVars, pureVars, progressVars, detectVars>>

OperationRejects ==
    /\ rt.pc = "loop"
    /\ \E error \in OperationErrors(rt.calls + 1) :
          rt' = AttemptRejects(rt, error, config)
    /\ UNCHANGED <<config, batchVars, fileVars, pureVars, progressVars, detectVars>>

BackoffTimer ==
    /\ rt.pc = "sleeping"
    /\ rt' = BackoffElapsed(rt, config)
    /\ UNCHANGED <<config, batchVars, fileVars, pureVars, progressVars, detectVars>>

RetryNext == OperationResolves \/ OperationRejects \/ BackoffTimer

RetrySpec == RetryInit /\ [][RetryNext]_vars

\* ------------------------------------------------------------- the batch
\* sizes in bytes of the files of the input directory: 1 KB, 1500 bytes, 10 KB,
\* 100 KB
FileSizes == {1024, 1500, 10240, 102400}

Max(a, b) == IF a >= b THEN a ELSE b

\* `Math.max(0, 1000 - Math.floor(stats.size / 1024))`
PriorityLargeFirst(size) == Max(0, 1000 + (size \div 1024))
Priority(size) == Max(0, 1000 - (size \div 1024))

\* Array.prototype.sort with (a, b) => b.priority - a.priority: stable,
\* descending by priority
InsertUnstable(e, sorted) ==
    LET before == {k \in 1 .. Len(sorted) : sorted[k].priority >= e.priority}
        n == Cardinality(before)
    IN  SubSeq(sorted, 1, n) \o <<e>> \o SubSeq(sorted, n + 1, Len(sorted))

InsertByPriority(e, sorted) ==
    LET before == {k \in 1 .. Len(sorted) : sorted[k].priority > e.priority}
        n == Cardinality(before)
    IN  SubSeq(sorted, 1, n) \o <<e>> \o SubSeq(sorted, n + 1, Len(sorted))

SortNone(q) == q

RECURSIVE SortByPriority(_)
SortByPriority(q) ==
    IF Len(q) <= 1 THEN q
    ELSE InsertByPriority(Head(q), SortByPriority(Tail(q)))

Range(s) == {s[k] : k \in 1 .. Len(s)}

Units == 1 .. Len(files)

\* the errors a translateFile call is modelled to reject with, raised for unit
\* u, one of each kind the scheduler tells apart: an APIError (as thrown for a
\* rejected file, a failed detection or, by withRetry, for a permanent
\* status), the raw error withRetry rethrows when its attempts are exhausted,
\* and a raw transport error thrown while the stream is consumed
UnitErrors(u) ==
    {APIError("api", 401, u), HttpError(503, u), SystemError("ECONNRESET", u)}

\* p-limit: a waiting call may start while fewer than `concurrency` run
LimitNoBound(act, k) == TRUE
LimitHasSlot(act, k) == Cardinality(act) < k

\* a call that settled, fulfilled or rejected, gives its slot back
ReleaseNever(act, u) == act
Release(act, u) == act \ {u}

\* p-limit starts the calls at the head of its queue while a slot is free
RECURSIVE LimitStart(_, _, _)
LimitStart(act, q, k) ==
    IF q # <<>> /\ LimitHasSlot(act, k)
    THEN LimitStart(act \cup {Head(q)}, Tail(q), k)
    ELSE [active |-> act, queue |-> q]

\* the unit table after the limiter moved from (active, _) to `lim`
Started(un, lim) ==
    [u \in DOMAIN un |->
        IF u \in lim.active /\ un[u].state = "limited"
        THEN [un[u] EXCEPT !.state = "running", !.starts = @ + 1]
        ELSE un[u]]

Init ==
    /\ config = DefaultConfig
    /\ rt = withRetryEnter(DefaultConfig)
    /\ concurrency \in 1 .. MaxConcurrency
    /\ \E n \in 0 .. MaxFiles : files \in [1 .. n -> FileSizes]
    /\ phase = "start"
    /\ taskQueue = <<>>
    /\ limitQueue = <<>>
    /\ active = {}
    /\ running = {}
    /\ results = <<>>
    /\ awaited = {}
    /\ reactions = <<>>
    /\ admitted = <<>>
    /\ completed = <<>>
    /\ unit = [u \in Units |->
                 [state |-> "new", starts |-> 0, requeued |-> 0, error |-> NoError]]
    /\ outcome = NotSettled
    /\ FilesIdle
    /\ PureIdle
    /\ ProgressIdle
    /\ DetectIdle

\* `if (files.length === 0)`
NothingEnumeratedNever(enumerated) == FALSE
NothingEnumerated(enumerated) == Len(enumerated) = 0

\* translate: the directory is enumerated; an empty enumeration is an error
Translate ==
    /\ phase = "start"
    /\ IF NothingEnumerated(files)
       THEN /\ phase' = "settled"
            /\ outcome' = [NotSettled EXCEPT !.kind = "thrown",
                                             !.error = APIError("not_found", -1, 0)]
       ELSE /\ phase' = "adding"
            /\ UNCHANGED outcome
    /\ UNCHANGED <<retryVars, fileVars, pureVars, progressVars, detectVars,
                   concurrency, files, taskQueue, limitQueue, active,
                   running, results, awaited, reactions, admitted, completed, unit>>

\* addTask for the next enumerated file: push, then sort; after the last file
\* translate calls processTasks
AddTask ==
    /\ phase = "adding"
    /\ \E v \in Units : unit[v].state = "new"
    /\ LET u == CHOOSE v \in Units :
                    unit[v].state = "new" /\ \A w \in 1 .. v - 1 : unit[w].state # "new"
       IN  /\ taskQueue' = SortByPriority(
                 Append(taskQueue, [priority |-> Priority(files[u]), unit |-> u]))
           /\ unit' = [unit EXCEPT ![u].state = "queued"]
           /\ phase' = IF u = Len(files) THEN "looping" ELSE "adding"
    /\ UNCHANGED <<retryVars, fileVars, pureVars, progressVars, detectVars,
                   concurrency, files, limitQueue, active, running,
                   results, awaited, reactions, admitted, completed, outcome>>

\* one iteration of the while loop of processTasks: shift, limit(...), add to
\* running; the loop is synchronous, and once the queue is empty processTasks
\* awaits Promise.all(Array.from(running))
Dequeue ==
    /\ phase = "looping"
    /\ taskQueue # <<>>
    /\ LET u == Head(taskQueue).unit
           lim == LimitStart(active, Append(limitQueue, u), concurrency)
       IN  /\ taskQueue' = Tail(taskQueue)
           /\ active' = lim.active
           /\ limitQueue' = lim.queue
           /\ unit' = Started([unit EXCEPT ![u].state = "limited"], lim)
           /\ running' = running \cup {u}
           /\ admitted' = Append(admitted, u)
           /\ IF Tail(taskQueue) = <<>>
              THEN phase' = "awaiting" /\ awaited' = running \cup {u}
              ELSE phase' = "looping" /\ UNCHANGED awaited
    /\ UNCHANGED <<retryVars, fileVars, pureVars, progressVars, detectVars,
                   concurrency, files, results, reactions, completed,
                   outcome>>

\* results.push(result)
RecordResultTwice(res, u) == res \o <<u, u>>
RecordResultFirst(res, u) == <<u>> \o res
RecordResult(res, u) == Append(res, u)

\* `results.filter(r => r !== null)`; 0 stands for null
ValidResults(res) == SelectSeq(res, LAMBDA r : r # 0)

\* the entry the catch block of the limited function pushes back
RequeuedEntry(u) == [priority |-> 0, unit |-> u]

\* Promise reactions are microtasks: the handlers of a settled task promise run
\* before the next I/O callback lets another task settle.
\*
\* the task of unit u resolves: the limiter frees its slot and starts the next
\* call; the promise returned by limit(...) is fulfilled and its .then handler
\* is queued
UnitSucceeds(u) ==
    /\ phase \in {"awaiting", "settled"}
    /\ reactions = <<>>
    /\ unit[u].state = "running"
    /\ LET lim == LimitStart(Release(active, u), limitQueue, concurrency)
       IN  /\ active' = lim.active
           /\ limitQueue' = lim.queue
           /\ unit' = Started([unit EXCEPT ![u].state = "resolved"], lim)
    /\ reactions' = Append(reactions, u)
    /\ completed' = Append(completed, u)
    /\ UNCHANGED <<retryVars, fileVars, pureVars, progressVars, detectVars,
                   concurrency, files, phase, taskQueue, running,
                   results, awaited, admitted, outcome>>

\* the task of unit u rejects with error: the catch block of the limited
\* function pushes the task back when the error is retryable and rethrows; the
\* limiter frees the slot and starts the next call; the promise returned by
\* limit(...) is rejected and its .catch handler is queued
UnitFails(u, error) ==
    /\ phase \in {"awaiting", "settled"}
    /\ reactions = <<>>
    /\ unit[u].state = "running"
    /\ LET lim == LimitStart(Release(active, u), limitQueue, concurrency)
           requeue == isRetryableError(error)
       IN  /\ taskQueue' = IF requeue THEN Append(taskQueue, RequeuedEntry(u))
                           ELSE taskQueue
           /\ active' = lim.active
           /\ limitQueue' = lim.queue
           /\ unit' = Started([unit EXCEPT ![u].state = "rejected",
                                           ![u].error = error,
                                           ![u].requeued = IF requeue THEN @ + 1 ELSE @],
                              lim)
    /\ reactions' = Append(reactions, u)
    /\ UNCHANGED <<retryVars, fileVars, pureVars, progressVars, detectVars,
                   concurrency, files, phase, running, results,
                   awaited, admitted, completed, outcome>>

\* the .then handler of the oldest fulfilled promise runs: the result is
\* recorded and the promise leaves running; Promise.all resolves once every
\* awaited promise is fulfilled: processTasks returns and translate returns the
\* list
ResultRecorded ==
    /\ reactions # <<>>
    /\ unit[Head(reactions)].state = "resolved"
    /\ LET u == Head(reactions)
           un == [unit EXCEPT ![u].state = "succeeded"]
       IN  /\ unit' = un
           /\ results' = RecordResult(results, u)
           /\ running' = running \ {u}
           /\ IF phase = "awaiting" /\ \A v \in awaited : un[v].state = "succeeded"
              THEN /\ phase' = "settled"
                   /\ outcome' = [NotSettled EXCEPT !.kind = "returned",
                                                    !.results =
                                                        ValidResults(RecordResult(results, u)),
                                                    !.report = generateReport]
              ELSE UNCHANGED <<phase, outcome>>
    /\ reactions' = Tail(reactions)
    /\ UNCHANGED <<retryVars, fileVars, pureVars, progressVars, detectVars,
                   concurrency, files, taskQueue, limitQueue, active,
                   awaited, admitted, completed>>

\* the .catch handler of the oldest rejected promise runs: the promise leaves
\* running; Promise.all rejects with the first rejection, so a processTasks
\* that is still awaiting throws, and translate with it
FailureHandled ==
    /\ reactions # <<>>
    /\ unit[Head(reactions)].state = "rejected"
    /\ LET u == Head(reactions)
       IN  /\ unit' = [unit EXCEPT ![u].state = "failed", ![u].error = NoError]
           /\ running' = running \ {u}
           /\ IF phase = "awaiting"
              THEN /\ phase' = "settled"
                   /\ outcome' = [NotSettled EXCEPT !.kind = "thrown",
                                                    !.error = unit[u].error]
              ELSE UNCHANGED <<phase, outcome>>
    /\ reactions' = Tail(reactions)
    /\ UNCHANGED <<retryVars, fileVars, pureVars, progressVars, detectVars,
                   concurrency, files, taskQueue, limitQueue, active,
                   results, awaited, admitted, completed>>

Next ==
    \/ Translate
    \/ AddTask
    \/ Dequeue
    \/ \E u \in Units : UnitSucceeds(u)
    \/ \E u \in Units : \E error \in UnitErrors(u) : UnitFails(u, error)
    \/ ResultRecorded
    \/ FailureHandled

Spec == Init /\ [][Next]_vars

\* the scheduling the event loop provides: the synchronous part of translate
\* (addTask calls, the while loop of processTasks) runs to its end, every task
\* that was started settles, and queued promise reactions run
Fairness ==
    /\ WF_vars(Translate \/ AddTask \/ Dequeue)
    /\ \A u \in 1..MaxFiles :
          WF_vars(/\ u \in Units
                  /\ \/ UnitSucceeds(u)
                     \/ \E error \in UnitErrors(u) : UnitFails(u, error))
    /\ WF_vars(ResultRecorded \/ FailureHandled)

\* two sizes, hence two priorities, are enough to order the admissions
LiveFileSizes == {1024, 10240}

LiveInit == Init /\ \A k \in DOMAIN files : files[k] \in LiveFileSizes

LiveSpec == LiveInit /\ [][Next]_vars /\ Fairness

\* ------------------------------------------------ properties of the batch
RunningUnits == {u \in Units : unit[u].state = "running"}
\* the units whose translateFile call has settled
FinishedUnits ==
    {u \in Units : unit[u].state \in {"resolved", "rejected", "succeeded", "failed"}}
SucceededUnits == {u \in Units : unit[u].state \in {"resolved", "succeeded"}}

\* nothing is left to happen: the call settled, no task runs or waits for a slot
Quiescent ==
    phase = "settled" /\ active = {} /\ limitQueue = <<>> /\ reactions = <<>>

\* C1: at every moment the number of units whose translateFile has started
\* and has not settled is at most the concurrency.
AdmissionBound == Cardinality(RunningUnits) <= concurrency

AdmissionBoundWitness ==
    /\ concurrency = 2
    /\ Len(files) = 3
    /\ Cardinality(RunningUnits) = 2
    /\ limitQueue # <<>>
    /\ phase = "awaiting"

\* C2: a directory batch in which a unit failed still completes normally:
\* translate returns, and the list it returns holds exactly the units that
\* succeeded.
BatchSurvivesFailure ==
    phase = "settled" /\ Len(files) > 0 =>
        /\ outcome.kind = "returned"
        /\ Range(outcome.results) = SucceededUnits

\* C3: the batch call settles, by returning or by throwing, only when no unit
\* of the batch is still running or waiting to run.
SettlesWhenAllFinished ==
    outcome.kind # "none" => FinishedUnits = Units

\* C4: a unit re-inserted into taskQueue after a retryable failure is admitted
\* and executed again in the same batch: once nothing is left to happen, every
\* re-queued unit was started once more than it was re-queued.
RequeuedRunsAgain ==
    Quiescent =>
        \A u \in Units : unit[u].requeued > 0 => unit[u].starts > unit[u].requeued


\* position of unit u in the sequence s of units (0: not in it)
Position(s, u) ==
    IF \E k \in 1 .. Len(s) : s[k] = u
    THEN CHOOSE k \in 1 .. Len(s) : s[k] = u
    ELSE 0

\* u precedes v in s, both being in it
Precedes(s, u, v) == Position(s, u) > 0 /\ Position(s, u) < Position(s, v)

\* C11: units are dequeued and handed to the limiter in descending priority
\* order, units of equal priority in enumeration order, and the limiter
\* starts them in that order; files of 10 KB, 1 KB and 100 KB enumerated in
\* that order are admitted in the order 1 KB, 10 KB, 100 KB.
AdmissionInPriorityOrder ==
    /\ \A i, j \in 1 .. Len(admitted) :
          i < j =>
              /\ \/ Priority(files[admitted[i]]) > Priority(files[admitted[j]])
                 \/ /\ Priority(files[admitted[i]]) = Priority(files[admitted[j]])
                    /\ admitted[i] < admitted[j]
              /\ unit[admitted[j]].starts > 0 => unit[admitted[i]].starts > 0
    /\ files = <<10240, 1024, 102400>> /\ Len(admitted) = 3 => admitted = <<2, 1, 3>>

AdmissionInPriorityOrderWitness ==
    /\ files = <<10240, 1024, 102400>>
    /\ concurrency = 1
    /\ admitted = <<2, 1, 3>>
    /\ completed = <<2, 1>>
    /\ unit[3].state = "running"

QueueSorted ==
    \A k \in 1 .. Len(taskQueue) - 1 :
        taskQueue[k].priority >= taskQueue[k + 1].priority

QueueSortedWitness ==
    /\ Len(files) = 3
    /\ Priority(files[1]) < Priority(files[2])
    /\ Priority(files[2]) < Priority(files[3])
    /\ Len(admitted) = 3
    /\ Len(taskQueue) = 2
    /\ unit[taskQueue[1].unit].requeued = 1

\* C14: the entry pushed back for a unit after a retryable failure carries the
\* priority the unit was first enqueued with.
RequeueKeepsPriority ==
    \A k \in 1 .. Len(taskQueue) :
        taskQueue[k].priority = Priority(files[taskQueue[k].unit])

\* C15: every enqueued unit is in exactly one of the states queued (an entry
\* of taskQueue), running (its promise is in the running set) or finished
\* (its task settled and was handled); in particular none is in taskQueue and
\* in the running set at once.
InTaskQueue(u) == \E k \in 1 .. Len(taskQueue) : taskQueue[k].unit = u
InRunningSet(u) == u \in running
Handled(u) == unit[u].state \in {"succeeded", "failed"}

ExclusiveStates ==
    \A u \in Units :
        unit[u].state # "new" =>
            /\ ~(InTaskQueue(u) /\ InRunningSet(u))
            /\ ~(InTaskQueue(u) /\ Handled(u))
            /\ ~(InRunningSet(u) /\ Handled(u))
            /\ InTaskQueue(u) \/ InRunningSet(u) \/ Handled(u)

ResultsInCompletionOrder ==
    /\ Len(results) <= Len(completed)
    /\ results = SubSeq(completed, 1, Len(results))
    /\ outcome.kind = "returned" => outcome.results = completed

ResultsInCompletionOrderWitness ==
    /\ outcome.kind = "returned"
    /\ Len(outcome.results) = 3
    /\ outcome.results # admitted
    /\ outcome.results # <<1, 2, 3>>
    /\ admitted # <<1, 2, 3>>


\* C22: a translate call on a directory in which no supported file is
\* enumerated throws the FILE_ERRORS.NOT_FOUND error at once: no unit is
\* enqueued or admitted, no result is recorded and no report is written.
EmptyBatchFails ==
    files = <<>> /\ phase # "start" =>
        /\ phase = "settled"
        /\ outcome.kind = "thrown"
        /\ outcome.error = APIError("not_found", -1, 0)
        /\ ~outcome.report
        /\ taskQueue = <<>> /\ limitQueue = <<>> /\ running = {}
        /\ admitted = <<>> /\ results = <<>>

EmptyBatchFailsWitness ==
    /\ files = <<>>
    /\ phase = "settled"
    /\ outcome.kind = "thrown"

\* C29: when the translate call has settled no entry is left in taskQueue.
QueueEmptyWhenSettled ==
    phase = "settled" => taskQueue = <<>>


\* ------------------------------------------- translateFile and the disk
\* languages the documents of the batch are written in
Languages == {"en", "ja"}

\* the units of the batch whose translateFile calls run side by side
Workers == {1, 2}

\* Paths of the output directory.  A name is the list of the `_index`
\* suffixes generateUniqueFileName appended to the base name "a":
\* a.md is File(<<>>), a_1.md is File(<<1>>), a_1_1.md is File(<<1, 1>>).
File(name) == [name |-> name, form |-> "file"]

\* `${filePath}.tmp`
TempPath(filePath) == [filePath EXCEPT !.form = "tmp"]

\* targetPath.replace(ext, `.${options.languages.target}${ext}`)
SuffixedPath(targetPath) == [targetPath EXCEPT !.form = "lang"]

\* no open file
NoFd == [name |-> <<>>, form |-> "none"]

\* file contents: the complete document of an earlier run, or what unit u
\* wrote, completely or only in part
Old == [kind |-> "complete", by |-> 0]
Complete(u) == [kind |-> "complete", by |-> u]
Partial(u) == [kind |-> "partial", by |-> u]

\* fs.existsSync
pathExists(d, p) == p \in DOMAIN d

\* fs.promises.unlink
unlink(d, p) == [q \in DOMAIN d \ {p} |-> d[q]]

\* fs.promises.rename: replaces whatever the new path named
rename(d, oldPath, newPath) ==
    [q \in (DOMAIN d \ {oldPath}) \cup {newPath} |->
        IF q = newPath THEN d[oldPath] ELSE d[q]]

\* fs.promises.writeFile opens the path with flag 'w': created or truncated
OpenForWriting(d, p, u) ==
    [q \in DOMAIN d \cup {p} |-> IF q = p THEN Partial(u) ELSE d[q]]

\* an open file follows its inode: renamed with it, orphaned once the path
\* is unlinked or another file is renamed onto it
FdAfterRename(fd, oldPath, newPath) ==
    IF fd = oldPath THEN newPath ELSE IF fd = newPath THEN NoFd ELSE fd

FdAfterUnlink(fd, p) == IF fd = p THEN NoFd ELSE fd

RECURSIVE UniqueFrom(_, _, _)
UniqueFrom(d, filePath, index) ==
    LET newPath == [filePath EXCEPT !.name = Append(@, index)]
    IN  IF pathExists(d, newPath) THEN UniqueFrom(d, filePath, index + 1) ELSE newPath

\* `${baseName}_${index}${ext}` for index 1, 2, ... until the name is free
generateUniqueFileName(d, filePath) ==
    IF pathExists(d, filePath) THEN UniqueFrom(d, filePath, 1) ELSE filePath

\* base name of unit u's source file: unit 1 is a.md, unit 2 is a_1.md
SourceName(u) == IF u = 1 THEN <<>> ELSE <<1>>

\* path.join(options.output, relativePath)
TargetPath(u) == File(SourceName(u))

\* what an earlier run or the user may have left in the output directory:
\* a.md, a_1.md, a.<target>.md, a.md.tmp
PreExistingPaths ==
    {File(<<>>), File(<<1>>), SuffixedPath(File(<<>>)), TempPath(File(<<>>))}

Terminal == {"done", "failed", "killed"}

\* file sizes in MB, at and above the limit
FileSizesMB == {maxFileSize, maxFileSize + 1}

\* translateFile from the point where the source language is known up to the
\* first attempt of the translation request: the target is renamed when it
\* exists and autoRename is set, and generateSystemPrompt reads the shared
\* options
Prepare(frame, source, d, auto) ==
    [frame EXCEPT
        !.targetPath = IF auto /\ pathExists(d, @)
                       THEN generateUniqueFileName(d, @)
                       ELSE @,
        !.prompt = source,
        !.requested = TRUE,
        !.pc = "requesting"]

\* the catch block of writeFileContent: the temporary file is removed
CleanUp(d, filePath) ==
    IF pathExists(d, TempPath(filePath)) THEN unlink(d, TempPath(filePath)) ELSE d

FileInit ==
    /\ config = DefaultConfig
    /\ rt = withRetryEnter(DefaultConfig)
    /\ BatchIdle
    /\ given \in {Unresolved} \cup Languages
    /\ options = [source |-> given]
    /\ autoRename \in BOOLEAN
    /\ ignoreEmptyFiles \in BOOLEAN
    /\ PureIdle
    /\ ProgressIdle
    /\ DetectIdle
    /\ existing \in SUBSET PreExistingPaths
    /\ disk = [p \in existing |-> Old]
    /\ \E lang \in [Workers -> Languages], empty \in [Workers -> BOOLEAN],
          supported \in [Workers -> BOOLEAN], sizeMB \in [Workers -> FileSizesMB] :
          tf = [u \in Workers |->
                   [pc |-> "start", lang |-> lang[u], empty |-> empty[u],
                    supported |-> supported[u], sizeMB |-> sizeMB[u],
                    targetPath |-> TargetPath(u),
                    prompt |-> Unresolved, metadata |-> Unresolved,
                    requested |-> FALSE, error |-> "none",
                    fd |-> NoFd, raced |-> FALSE]]

\* `content.trim().length === 0 && this.config.ignoreEmptyFiles`
EmptyRejectedNever(frame, ignore) == FALSE
EmptyRejected(frame, ignore) == frame.empty /\ ignore

\* isFileSupported, by the file's extension
isFileSupported(file) == file.supported

\* checkFileSize throws: `fileSizeMB > this.config.maxFileSize`
checkFileSize(file) == file.sizeMB > maxFileSize

\* the error translateFile rejects the unit with before any request, "none"
\* when it passes the three checks
RejectionSizeFirst(frame, ignore) ==
    IF checkFileSize(frame) THEN "FILE_TOO_LARGE"
    ELSE IF ~isFileSupported(frame) THEN "UNSUPPORTED_TYPE"
    ELSE IF EmptyRejected(frame, ignore) THEN "EMPTY_FILE"
    ELSE "none"
Rejection(frame, ignore) ==
    IF ~isFileSupported(frame) THEN "UNSUPPORTED_TYPE"
    ELSE IF checkFileSize(frame) THEN "FILE_TOO_LARGE"
    ELSE IF EmptyRejected(frame, ignore) THEN "EMPTY_FILE"
    ELSE "none"

\* the start of translateFile: the type and the size are checked, the source
\* is read and an empty document is rejected when ignoreEmptyFiles is set;
\* otherwise detection is requested when no source language is set
ReadSource(u) ==
    /\ tf[u].pc = "start"
    /\ tf' = [tf EXCEPT ![u] =
                 IF Rejection(@, ignoreEmptyFiles) # "none"
                 THEN [@ EXCEPT !.pc = "failed",
                                !.error = Rejection(tf[u], ignoreEmptyFiles)]
                 ELSE IF options.source = Unresolved
                 THEN [@ EXCEPT !.pc = "detecting", !.requested = TRUE]
                 ELSE Prepare(@, options.source, disk, autoRename)]
    /\ UNCHANGED <<retryVars, batchVars, pureVars, progressVars, detectVars,
                   ignoreEmptyFiles,
                   options, given, autoRename, disk, existing>>

\* `options.languages.source = await this.detectLanguage(content)`
LanguageDetected(u) ==
    /\ tf[u].pc = "detecting"
    /\ options' = [options EXCEPT !.source = tf[u].lang]
    /\ tf' = [tf EXCEPT ![u] = Prepare(@, tf[u].lang, disk, autoRename)]
    /\ UNCHANGED <<retryVars, batchVars, pureVars, progressVars, detectVars,
                   ignoreEmptyFiles,
                   given, autoRename, disk, existing>>

\* detectLanguage or the translation request rejects for good
RequestFails(u) ==
    /\ tf[u].pc \in {"detecting", "requesting"}
    /\ tf' = [tf EXCEPT ![u].pc = "failed", ![u].error = "REQUEST"]
    /\ UNCHANGED <<retryVars, batchVars, pureVars, progressVars, detectVars,
                   ignoreEmptyFiles,
                   options, given, autoRename, disk, existing>>

\* withRetry calls the operation again: the system prompt is generated anew
RequestRetried(u) ==
    /\ tf[u].pc = "requesting"
    /\ tf' = [tf EXCEPT ![u].prompt = options.source]
    /\ UNCHANGED <<retryVars, batchVars, pureVars, progressVars, detectVars,
                   ignoreEmptyFiles,
                   options, given, autoRename, disk, existing>>

\* withRetry returns the stream: the request was accepted
StreamBegins(u) ==
    /\ tf[u].pc = "requesting"
    /\ tf' = [tf EXCEPT ![u].pc = "streaming"]
    /\ UNCHANGED <<retryVars, batchVars, pureVars, progressVars, detectVars,
                   ignoreEmptyFiles,
                   options, given, autoRename, disk, existing>>

\* where translateFile goes when the iteration over the stream throws: the
\* loop is outside withRetry, the error reaches the catch block
StreamFailureRetried(frame) == [frame EXCEPT !.pc = "requesting"]
StreamFailure(frame) == [frame EXCEPT !.pc = "failed", !.error = "STREAM"]

\* the stream breaks while it is consumed
StreamFails(u) ==
    /\ tf[u].pc = "streaming"
    /\ tf' = [tf EXCEPT ![u] = StreamFailure(@)]
    /\ UNCHANGED <<retryVars, batchVars, pureVars, progressVars, detectVars,
                   ignoreEmptyFiles,
                   options, given, autoRename, disk, existing>>

\* the stream ended: the metadata block is generated from the shared options
\* and writeFileContent opens the temporary file
StreamEnds(u) ==
    /\ tf[u].pc = "streaming"
    /\ LET tempPath == TempPath(tf[u].targetPath)
           racing == {v \in Workers \ {u} : tf[v].fd = tempPath}
       IN  /\ disk' = OpenForWriting(disk, tempPath, u)
           /\ tf' = [v \in Workers |->
                        IF v = u
                        THEN [tf[v] EXCEPT !.metadata = options.source,
                                           !.fd = tempPath,
                                           !.raced = racing # {},
                                           !.pc = "writing"]
                        ELSE IF v \in racing
                        THEN [tf[v] EXCEPT !.raced = TRUE]
                        ELSE tf[v]]
    /\ UNCHANGED <<retryVars, batchVars, pureVars, progressVars, detectVars,
                   ignoreEmptyFiles,
                   options, given, autoRename, existing>>

\* writeFile finished: the file it had opened holds the whole document,
\* unless another unit wrote the same file meanwhile
WriteCompletes(u) ==
    /\ tf[u].pc = "writing"
    /\ IF tf[u].fd = NoFd
       THEN disk' = disk
       ELSE \E content \in {Complete(u)} \cup (IF tf[u].raced THEN {Partial(u)} ELSE {}) :
               disk' = [disk EXCEPT ![tf[u].fd] = content]
    /\ tf' = [tf EXCEPT ![u].fd = NoFd, ![u].raced = FALSE, ![u].pc = "written"]
    /\ UNCHANGED <<retryVars, batchVars, pureVars, progressVars, detectVars,
                   ignoreEmptyFiles,
                   options, given, autoRename, existing>>

\* `if (await pathExists(filePath)) await fs.promises.unlink(filePath)`
RemoveDestination(u) ==
    /\ tf[u].pc = "written"
    /\ LET filePath == tf[u].targetPath
       IN  IF pathExists(disk, filePath)
           THEN /\ disk' = unlink(disk, filePath)
                /\ tf' = [v \in Workers |->
                             IF v = u
                             THEN [tf[v] EXCEPT !.pc = "unlinked"]
                             ELSE [tf[v] EXCEPT !.fd = FdAfterUnlink(@, filePath)]]
           ELSE /\ disk' = disk
                /\ tf' = [tf EXCEPT ![u].pc = "unlinked"]
    /\ UNCHANGED <<retryVars, batchVars, pureVars, progressVars, detectVars,
                   ignoreEmptyFiles,
                   options, given, autoRename, existing>>

\* `await fs.promises.rename(tempPath, filePath)`; ENOENT when the temporary
\* file is gone
RenameTemp(u) ==
    /\ tf[u].pc = "unlinked"
    /\ LET filePath == tf[u].targetPath
           tempPath == TempPath(filePath)
       IN  IF pathExists(disk, tempPath)
           THEN /\ disk' = rename(disk, tempPath, filePath)
                /\ tf' = [v \in Workers |->
                             IF v = u
                             THEN [tf[v] EXCEPT !.pc = IF autoRename THEN "renamed" ELSE "done"]
                             ELSE [tf[v] EXCEPT !.fd = FdAfterRename(@, tempPath, filePath)]]
           ELSE /\ disk' = disk
                /\ tf' = [tf EXCEPT ![u].pc = "failed", ![u].error = "ENOENT"]
    /\ UNCHANGED <<retryVars, batchVars, pureVars, progressVars, detectVars,
                   ignoreEmptyFiles,
                   options, given, autoRename, existing>>

\* a file operation of writeFileContent rejects: the catch block removes the
\* temporary file and rethrows
FileOperationFails(u) ==
    /\ tf[u].pc \in {"writing", "written", "unlinked"}
    /\ LET tempPath == TempPath(tf[u].targetPath)
       IN  /\ disk' = CleanUp(disk, tf[u].targetPath)
           /\ tf' = [v \in Workers |->
                        IF v = u
                        THEN [tf[v] EXCEPT !.fd = NoFd, !.raced = FALSE, !.pc = "failed",
                                           !.error = "FILE"]
                        ELSE [tf[v] EXCEPT !.fd = FdAfterUnlink(@, tempPath)]]
    /\ UNCHANGED <<retryVars, batchVars, pureVars, progressVars, detectVars,
                   ignoreEmptyFiles,
                   options, given, autoRename, existing>>

\* autoRename: `await fs.promises.rename(targetPath, newPath)` adds the
\* language suffix; ENOENT when the target is gone
AddLanguageSuffix(u) ==
    /\ tf[u].pc = "renamed"
    /\ LET targetPath == tf[u].targetPath
           newPath == SuffixedPath(targetPath)
       IN  IF pathExists(disk, targetPath)
           THEN /\ disk' = rename(disk, targetPath, newPath)
                /\ tf' = [v \in Workers |->
                             IF v = u
                             THEN [tf[v] EXCEPT !.targetPath = newPath, !.pc = "done"]
                             ELSE [tf[v] EXCEPT !.fd = FdAfterRename(@, targetPath, newPath)]]
           ELSE /\ disk' = disk
                /\ tf' = [tf EXCEPT ![u].pc = "failed", ![u].error = "ENOENT"]
    /\ UNCHANGED <<retryVars, batchVars, pureVars, progressVars, detectVars,
                   ignoreEmptyFiles,
                   options, given, autoRename, existing>>

\* the process is interrupted: every unit stops where it is
Interrupt ==
    /\ \E u \in Workers : tf[u].pc \notin Terminal
    /\ tf' = [u \in Workers |->
                 IF tf[u].pc \in Terminal
                 THEN tf[u]
                 ELSE [tf[u] EXCEPT !.fd = NoFd, !.pc = "killed"]]
    /\ UNCHANGED <<retryVars, batchVars, pureVars, progressVars, detectVars,
                   ignoreEmptyFiles,
                   options, given, autoRename, disk, existing>>

FileNext ==
    \/ \E u \in Workers : ReadSource(u)
    \/ \E u \in Workers : LanguageDetected(u)
    \/ \E u \in Workers : RequestFails(u)
    \/ \E u \in Workers : RequestRetried(u)
    \/ \E u \in Workers : StreamBegins(u)
    \/ \E u \in Workers : StreamFails(u)
    \/ \E u \in Workers : StreamEnds(u)
    \/ \E u \in Workers : WriteCompletes(u)
    \/ \E u \in Workers : RemoveDestination(u)
    \/ \E u \in Workers : RenameTemp(u)
    \/ \E u \in Workers : FileOperationFails(u)
    \/ \E u \in Workers : AddLanguageSuffix(u)
    \/ Interrupt

FileSpec == FileInit /\ [][FileNext]_vars

\* ------------------------------------------- properties of translateFile
\* C18: with the source language unresolved, the language a unit's system
\* prompt and metadata block name is the one detected from the unit's own
\* content, whatever the units running beside it detect.
OwnSourceLanguage ==
    given = Unresolved =>
        \A u \in Workers :
            /\ tf[u].prompt # Unresolved => tf[u].prompt = tf[u].lang
            /\ tf[u].metadata # Unresolved => tf[u].metadata = tf[u].lang

\* a path that takes no part in writeFileContent's temporary files
IsDestination(p) == p.form \in {"file", "lang"}

\* C19: whatever writeFileContent is doing, and wherever it is interrupted
\* or fails, a destination path is absent or holds a complete document.
DestinationNeverPartial ==
    \A p \in DOMAIN disk : IsDestination(p) => disk[p].kind = "complete"

\* C20: with autoRename set, every document that existed in the output
\* directory before the batch started is still there with its content: no
\* unit wrote over it, renamed a file onto it or deleted it.
ExistingFilesKept ==
    autoRename =>
        \A p \in existing : IsDestination(p) => pathExists(disk, p) /\ disk[p] = Old


Texts(alphabet) == UNION {[1 .. n -> alphabet] : n \in 0 .. MaxTextLen}

NewLine == <<"\n">>

\* position of the first character c of text, 0 when there is none
IndexOf(text, c) ==
    IF \E k \in 1 .. Len(text) : text[k] = c
    THEN CHOOSE k \in 1 .. Len(text) : text[k] = c /\ \A j \in 1 .. k - 1 : text[j] # c
    ELSE 0

\* String.prototype.split('\n'): the empty text gives one empty line
RECURSIVE Split(_)
Split(text) ==
    LET k == IndexOf(text, "\n")
    IN  IF k = 0
        THEN <<text>>
        ELSE <<SubSeq(text, 1, k - 1)>> \o Split(SubSeq(text, k + 1, Len(text)))

\* Array.prototype.join
RECURSIVE Join(_, _)
Join(lines, sep) ==
    IF Len(lines) = 0 THEN <<>>
    ELSE IF Len(lines) = 1 THEN lines[1]
    ELSE lines[1] \o sep \o Join(Tail(lines), sep)

\* `lines[i] || ''` for the zero-based index i
LineAt(lines, i) == IF i + 1 <= Len(lines) THEN lines[i + 1] ELSE <<>>

\* characters String.prototype.trim removes and \s matches; "u3000" is the
\* ideographic space U+3000
Whitespace == {" ", "\n", "\t", "u3000"}

\* `!line.trim()`
IsEmptyLine(line) == line = <<>>
IsBlank(line) == \A k \in 1 .. Len(line) : line[k] \in Whitespace

\* one entry of `result` in the parallel layout
PairLinesSourceFirst(sourceLine, translationLine, mode) ==
    sourceLine \o NewLine \o translationLine
PairLines(sourceLine, translationLine, mode) ==
    IF mode.showSourceFirst
    THEN sourceLine \o NewLine \o translationLine
    ELSE translationLine \o NewLine \o sourceLine

\* the parallel branch of formatBilingualContent
Parallel(source, translation, mode) ==
    LET sourceLines == Split(source)
        translationLines == Split(translation)
        maxLines == Max(Len(sourceLines), Len(translationLines))
        result == [k \in 1 .. maxLines |->
                     LET sourceLine == LineAt(sourceLines, k - 1)
                         translationLine == LineAt(translationLines, k - 1)
                     IN  IF mode.alignParagraphs /\ IsBlank(sourceLine)
                            /\ IsBlank(translationLine)
                         THEN <<>>
                         ELSE PairLines(sourceLine, translationLine, mode)]
    IN  Join(result, NewLine)

\* the sequential branch of formatBilingualContent
SequentialSourceFirst(source, translation, mode) ==
    source \o mode.separator \o translation
Sequential(source, translation, mode) ==
    IF mode.showSourceFirst
    THEN source \o mode.separator \o translation
    ELSE translation \o mode.separator \o source

formatBilingualContent(source, translation, mode) ==
    IF ~mode.enabled THEN translation
    ELSE IF mode.layout = "parallel" THEN Parallel(source, translation, mode)
    ELSE Sequential(source, translation, mode)

\* MetadataManager.generate: '' unless addMetadata, else the marked block
\* [startMark, metadata, endMark, ''].join('\n')
MetadataBlock(cfg) ==
    IF ~cfg.addMetadata THEN <<>>
    ELSE Join(<<(<<"<!--">>), (<<"meta">>), (<<"-->">>), (<<>>)>>, NewLine)

\* `this.config.keepOriginalContent && !this.config.bilingualMode.enabled`
KeepsOriginalBilingual(cfg) == cfg.keepOriginalContent
KeepsOriginal(cfg) == cfg.keepOriginalContent /\ ~cfg.bilingualMode.enabled

\* translateFile: finalContent
AssembleFinalContent(content, translatedContent, cfg) ==
    LET metadata == MetadataBlock(cfg)
        processedContent == formatBilingualContent(content, translatedContent,
                                                   cfg.bilingualMode)
    IN  (IF metadata # <<>> THEN metadata ELSE <<>>)
        \o (IF KeepsOriginal(cfg) THEN content \o cfg.contentSeparator ELSE <<>>)
        \o processedContent

\* prices are in tenths of a dollar per million tokens, costs in 10^-8 dollars
\* `options.price || this.config.defaultPrice || 0.2`
Rate(optionsPrice, configPrice) ==
    OrDefault(OrDefault(optionsPrice, configPrice), DefaultPrice)

\* calculateCost: tokenCount * inputRate + tokenCount * 1.3 * outputRate
calculateCostLessOutput(tokenCount, inputRate, outputRate) ==
    10 * tokenCount * inputRate - 13 * tokenCount * outputRate
calculateCost(tokenCount, inputRate, outputRate) ==
    10 * tokenCount * inputRate + 13 * tokenCount * outputRate

\* `Math.ceil(tokenCount * 1.3)`, the estimatedOutputTokens of TokenUsage
EstimatedOutputTokens(tokenCount) == (13 * tokenCount + 9) \div 10

\* the character classes of estimateTokenCount's regular expressions: the
\* ranges 4e00-9fff, 3000-303f, ff00-ff60 hold the ideographs ("han") and the
\* ideographic space U+3000; [a-zA-Z0-9] holds the letters and digits
ChineseChars == {"han", "u3000"}
EnglishAndNumbers == {"a", "7"}

\* text.match(/[set]/g).length
CountChars(text, set) == Cardinality({k \in 1 .. Len(text) : text[k] \in set})

\* text.match(/[a-zA-Z0-9]+/g).length: each match takes the longest run
RECURSIVE CountRunsPerChar(_, _)
CountRunsPerChar(text, pos) ==
    IF pos > Len(text) THEN 0
    ELSE (IF text[pos] \in EnglishAndNumbers THEN 1 ELSE 0) + CountRunsPerChar(text, pos + 1)

RECURSIVE CountRuns(_, _)
CountRuns(text, pos) ==
    IF pos > Len(text) THEN 0
    ELSE IF text[pos] \in EnglishAndNumbers
    THEN LET after == {k \in pos .. Len(text) : text[k] \notin EnglishAndNumbers}
             next == IF after = {} THEN Len(text) + 1
                     ELSE CHOOSE k \in after : \A j \in after : k <= j
         IN  1 + CountRuns(text, next)
    ELSE CountRuns(text, pos + 1)

estimateTokenCount(text) ==
    LET chineseTokens == CountChars(text, ChineseChars) * 2
        englishTokens == CountRuns(text, 1)
        otherTokens == Cardinality({k \in 1 .. Len(text) :
                           text[k] \notin EnglishAndNumbers \cup ChineseChars \cup Whitespace})
    IN  chineseTokens + englishTokens + otherTokens

\* ------------------------------------------ PureSpec: one function call
\* texts of letters, line breaks and blanks, with the two-line examples
SourceTexts == Texts({"A", "\n", " "}) \cup {<<"A", "\n", "B">>}
TranslationTexts == Texts({"X", "\n", " "}) \cup {<<"X", "\n", "Y">>}
TokenTexts == Texts({"a", "7", "han", "!", " ", "u3000"})
Separators == {<<"\n", "-", "-", "-", "\n">>}
ContentSeparators == {<<"\n", "\n", "-", "-", "-", "\n", "\n">>}
Prices == {0, 2, 10}

BilingualModes ==
    [enabled : BOOLEAN, layout : {"parallel", "sequential"},
     showSourceFirst : BOOLEAN, alignParagraphs : BOOLEAN, separator : Separators]

DocumentConfigs ==
    [addMetadata : BOOLEAN, keepOriginalContent : BOOLEAN,
     contentSeparator : ContentSeparators, bilingualMode : BilingualModes]

PureInit ==
    /\ config = DefaultConfig
    /\ rt = withRetryEnter(DefaultConfig)
    /\ BatchIdle
    /\ FilesIdle
    /\ PureIdle
    /\ ProgressIdle
    /\ DetectIdle

FormatBilingualContent ==
    /\ call = NoCall
    /\ \E source \in SourceTexts, translation \in TranslationTexts,
          mode \in BilingualModes :
          call' = [fn |-> "formatBilingualContent", source |-> source,
                   translation |-> translation, mode |-> mode,
                   output |-> formatBilingualContent(source, translation, mode)]
    /\ UNCHANGED <<retryVars, batchVars, fileVars, progressVars, detectVars>>

AssembleDocument ==
    /\ call = NoCall
    /\ \E content \in {<<"A">>, <<"A", "\n", "B">>},
          translatedContent \in {<<"X">>, <<"X", "\n", "Y">>},
          cfg \in DocumentConfigs :
          call' = [fn |-> "assemble", content |-> content,
                   translatedContent |-> translatedContent, cfg |-> cfg,
                   output |-> AssembleFinalContent(content, translatedContent, cfg)]
    /\ UNCHANGED <<retryVars, batchVars, fileVars, progressVars, detectVars>>

CalculateCost ==
    /\ call = NoCall
    /\ \E tokenCount \in 0 .. MaxTokens, optionsIn \in Prices, optionsOut \in Prices,
          configIn \in Prices, configOut \in Prices :
          LET inputRate == Rate(optionsIn, configIn)
              outputRate == Rate(optionsOut, configOut)
          IN  call' = [fn |-> "calculateCost", tokenCount |-> tokenCount,
                       inputRate |-> inputRate, outputRate |-> outputRate,
                       output |-> calculateCost(tokenCount, inputRate, outputRate)]
    /\ UNCHANGED <<retryVars, batchVars, fileVars, progressVars, detectVars>>

EstimateTokenCount ==
    /\ call = NoCall
    /\ \E text \in TokenTexts :
          call' = [fn |-> "estimateTokenCount", text |-> text,
                   output |-> estimateTokenCount(text)]
    /\ UNCHANGED <<retryVars, batchVars, fileVars, progressVars, detectVars>>

\* A directory holds files and subdirectories; a file has its content and
\* whether its extension is supported. Directories nest MaxDepth levels deep.
DirFiles ==
    {[supported |-> TRUE, content |-> <<"han">>],
     [supported |-> TRUE, content |-> <<"a", " ", "a">>],
     [supported |-> FALSE, content |-> <<"a">>]}
FileLists ==
    {<<>>} \cup {<<f>> : f \in DirFiles} \cup {<<f, g>> : f, g \in DirFiles}

RECURSIVE Directories(_)
Directories(depth) ==
    IF depth = 0 THEN [files : FileLists, dirs : {<<>>}]
    ELSE [files : FileLists,
          dirs : {<<>>} \cup {<<d>> : d \in Directories(depth - 1)}]

EnumerationConfigs ==
    [recursiveTranslation : BOOLEAN, maxRecursiveDepth : 0 .. MaxDepth]

\* the entries of a listing that are files with a supported extension
SupportedFiles(dir) == SelectSeq(dir.files, isFileSupported)

\* getAllFiles: the supported files of dir, and those of its subdirectories
\* when recursiveTranslation is set and the depth limit (0: none) allows
RECURSIVE getAllFiles(_, _, _)
getAllFiles(dir, depth, cfg) ==
    SupportedFiles(dir)
    \o (IF dir.dirs # <<>> /\ cfg.recursiveTranslation
           /\ (cfg.maxRecursiveDepth = 0 \/ depth < cfg.maxRecursiveDepth)
        THEN getAllFiles(dir.dirs[1], depth + 1, cfg)
        ELSE <<>>)

\* the sum of estimateTokenCount over the contents of a list of files
RECURSIVE TotalTokens(_)
TotalTokens(list) ==
    IF list = <<>> THEN 0
    ELSE estimateTokenCount(Head(list).content) + TotalTokens(Tail(list))

\* the directory branch of estimateUsage: fs.readdirSync(input), then the
\* entries that are files with a supported extension
EstimatedFiles(dir) == SupportedFiles(dir)

\* estimateUsage for a directory input
estimateUsage(dir, inputRate, outputRate) ==
    LET totalInputTokens == TotalTokens(EstimatedFiles(dir))
    IN  [inputTokens |-> totalInputTokens,
         estimatedOutputTokens |-> EstimatedOutputTokens(totalInputTokens),
         estimatedCost |-> calculateCost(totalInputTokens, inputRate, outputRate)]

\* estimateUsage and translate are called with the same directory and
\* configuration; `enqueued` holds the files translate hands to addTask
EstimateUsage ==
    /\ call = NoCall
    /\ \E input \in Directories(MaxDepth), cfg \in EnumerationConfigs :
          call' = [fn |-> "estimateUsage", input |-> input, cfg |-> cfg,
                   usage |-> estimateUsage(input, DefaultPrice, DefaultPrice),
                   enqueued |-> getAllFiles(input, 0, cfg)]
    /\ UNCHANGED <<retryVars, batchVars, fileVars, progressVars, detectVars>>

PureNext ==
    \/ FormatBilingualContent
    \/ AssembleDocument
    \/ CalculateCost
    \/ EstimateTokenCount
    \/ EstimateUsage

PureSpec == PureInit /\ [][PureNext]_vars


\* ------------------------- ProgressSpec: the progress one unit reports
\* A progress value is a JavaScript number.  The values of one call are kept
\* as multiples of 1/Scale(tokenCount), so that `content.length / tokenCount
\* * 100` is exact; nan marks NaN.
Scale(tokenCount) == IF tokenCount = 0 THEN 1 ELSE tokenCount
Number(n, tokenCount) == [nan |-> FALSE, num |-> n * Scale(tokenCount)]
NaN == [nan |-> TRUE, num |-> 0]

\* `Math.min(progress + content.length / tokenCount * 100, 99)`: x / 0 is
\* Infinity for x > 0 and NaN for x = 0; NaN is contagious, also through
\* Math.min
NextProgress(progress, length, tokenCount) ==
    IF progress.nan THEN NaN
    ELSE IF tokenCount = 0
    THEN IF length = 0 THEN NaN ELSE Number(99, tokenCount)
    ELSE [nan |-> FALSE,
          num |-> Min(progress.num + length * 100, 99 * tokenCount)]

\* ProgressManager.updateProgress(progressBar, value, status): the value goes
\* to the bar as it is; nothing is reported without a bar
Report(frame, value, status) ==
    IF frame.progressBar
    THEN [frame EXCEPT !.reports = Append(@, [value |-> value, status |-> status])]
    ELSE frame

\* the catch block of translateFile
Failed(frame) ==
    [Report(frame, Number(0, frame.tokenCount), "failed") EXCEPT !.pc = "failed"]

ProgressContents == {<<" ">>, <<"a", "!">>, <<"han", "a">>}

ProgressInit ==
    /\ config = DefaultConfig
    /\ rt = withRetryEnter(DefaultConfig)
    /\ BatchIdle
    /\ options = [source |-> Unresolved]
    /\ given = Unresolved
    /\ autoRename = TRUE
    /\ disk = <<>>
    /\ existing = {}
    /\ tf = <<>>
    /\ ignoreEmptyFiles \in BOOLEAN
    /\ PureIdle
    /\ DetectIdle
    /\ \E content \in ProgressContents, progressBar \in BOOLEAN :
          pb = [pc |-> "start", content |-> content, progressBar |-> progressBar,
                tokenCount |-> 0, progress |-> Number(0, 0), chunks |-> 0,
                written |-> FALSE, reports |-> <<>>]

\* translateFile up to the translation request: the content is read, an empty
\* document is rejected when ignoreEmptyFiles is set, the token count is
\* estimated and the bar is set to 0 twice
ReadAndEstimate ==
    /\ pb.pc = "start"
    /\ pb' = IF IsBlank(pb.content) /\ ignoreEmptyFiles
             THEN Failed(pb)
             ELSE LET tokenCount == estimateTokenCount(pb.content)
                      counted == [pb EXCEPT !.tokenCount = tokenCount]
                      zero == Number(0, tokenCount)
                  IN  [Report(Report(counted, zero, "cost"), zero, "translating")
                          EXCEPT !.pc = "requesting"]
    /\ UNCHANGED <<retryVars, batchVars, fileVars, pureVars, detectVars>>

\* the streaming request was accepted: `let progress = 0`
StreamOpens ==
    /\ pb.pc = "requesting"
    /\ pb' = [pb EXCEPT !.pc = "streaming", !.progress = Number(0, pb.tokenCount)]
    /\ UNCHANGED <<retryVars, batchVars, fileVars, pureVars, detectVars>>

\* withRetry throws for the translation request
RequestRejected ==
    /\ pb.pc = "requesting"
    /\ pb' = Failed(pb)
    /\ UNCHANGED <<retryVars, batchVars, fileVars, pureVars, detectVars>>

\* one chunk of the stream with `length` characters of content; `due` tells
\* whether progressUpdateInterval has passed since the last update
ChunkArrives ==
    /\ pb.pc = "streaming"
    /\ pb.chunks < MaxChunks
    /\ \E length \in 0 .. MaxChunkLen, due \in BOOLEAN :
          pb' = IF pb.progressBar /\ due
                THEN LET progress == NextProgress(pb.progress, length, pb.tokenCount)
                     IN  [Report(pb, progress, "stream")
                             EXCEPT !.progress = progress, !.chunks = @ + 1]
                ELSE [pb EXCEPT !.chunks = @ + 1]
    /\ UNCHANGED <<retryVars, batchVars, fileVars, pureVars, detectVars>>

\* the iteration over the stream throws
StreamBreaks ==
    /\ pb.pc = "streaming"
    /\ pb' = Failed(pb)
    /\ UNCHANGED <<retryVars, batchVars, fileVars, pureVars, detectVars>>

\* the stream ended: the document is assembled, 99 is reported and
\* writeFileContent is called
StreamCompletes ==
    /\ pb.pc = "streaming"
    /\ pb' = [Report(pb, Number(99, pb.tokenCount), "saving") EXCEPT !.pc = "saving"]
    /\ UNCHANGED <<retryVars, batchVars, fileVars, pureVars, detectVars>>

\* writeFileContent returned: 100 is reported
Saved ==
    /\ pb.pc = "saving"
    /\ pb' = [Report([pb EXCEPT !.written = TRUE], Number(100, pb.tokenCount), "complete")
                 EXCEPT !.pc = "saved"]
    /\ UNCHANGED <<retryVars, batchVars, fileVars, pureVars, detectVars>>

\* writeFileContent threw
SaveFails ==
    /\ pb.pc = "saving"
    /\ pb' = Failed(pb)
    /\ UNCHANGED <<retryVars, batchVars, fileVars, pureVars, detectVars>>

\* the rest of translateFile: the rename that adds the language suffix (with
\* autoRename) succeeds or throws, and the result is returned
Returns ==
    /\ pb.pc = "saved"
    /\ \/ pb' = [pb EXCEPT !.pc = "done"]
       \/ autoRename /\ pb' = Failed(pb)
    /\ UNCHANGED <<retryVars, batchVars, fileVars, pureVars, detectVars>>

ProgressNext ==
    \/ ReadAndEstimate
    \/ StreamOpens
    \/ RequestRejected
    \/ ChunkArrives
    \/ StreamBreaks
    \/ StreamCompletes
    \/ Saved
    \/ SaveFails
    \/ Returns

ProgressSpec == ProgressInit /\ [][ProgressNext]_vars


\* --------------------------------- DetectSpec: detectLanguage and its cache
\* A text is its first 500 characters and the rest.
DetectTexts == [head : {"h1", "h2"}, tail : {"t1", "t2"}]

\* hashText: the base64 encoding, which is injective, of text.slice(0, 500);
\* a hash is the list of the parts of the text it encodes
hashTextWhole(text) == <<text.head, text.tail>>
hashText(text) == <<text.head>>

\* keys of LANGUAGE_NAMES (three of the twelve)
LANGUAGE_NAMES == {<<"e", "n">>, <<"j", "a">>, <<"z", "h">>}

\* what the model answers: a code, a code with blanks and capitals around it,
\* a code that is not supported, nothing
Responses ==
    {<<"e", "n">>, <<" ", "E", "N", "\n">>, <<"j", "a">>, <<"x", "x">>, <<>>, <<" ">>}

\* String.prototype.trim
RECURSIVE Trim(_)
Trim(text) ==
    IF text = <<>> THEN text
    ELSE IF Head(text) \in Whitespace THEN Trim(Tail(text))
    ELSE IF text[Len(text)] \in Whitespace THEN Trim(SubSeq(text, 1, Len(text) - 1))
    ELSE text

\* String.prototype.toLowerCase
toLowerCase(text) ==
    [k \in 1 .. Len(text) |->
        IF text[k] = "E" THEN "e" ELSE IF text[k] = "N" THEN "n" ELSE text[k]]

\* `!detectedLang || !LANGUAGE_NAMES[detectedLang]`
InvalidLanguage(detectedLang) == detectedLang = <<>> \/ detectedLang \notin LANGUAGE_NAMES

\* new APIError(LANGUAGE_ERRORS.DETECTION_FAILED.message, -1, ...)
DetectionFailed == APIError("DETECTION_FAILED", -1, 0)

\* the errors the detection request is modelled to fail with at every attempt
DetectionErrors ==
    {HttpError(401, 0), HttpError(503, 0), SystemError("ECONNRESET", 0),
     SystemError("EOTHER", 0)}

\* what withRetry throws when every attempt rejects with `error`
RECURSIVE withRetryThrows(_, _, _)
withRetryThrows(r, error, c) ==
    IF r.pc = "thrown" THEN r.thrown
    ELSE IF r.pc = "sleeping" THEN withRetryThrows(BackoffElapsed(r, c), error, c)
    ELSE withRetryThrows(AttemptRejects(r, error, c), error, c)

\* the catch block of detectLanguage
DetectionError(error) == IF error.api THEN error ELSE DetectionFailed

DetectInit ==
    /\ config = DefaultConfig
    /\ rt = withRetryEnter(DefaultConfig)
    /\ BatchIdle
    /\ FilesIdle
    /\ PureIdle
    /\ ProgressIdle
    /\ languageDetectionCache = <<>>
    /\ dl = [w \in Workers |-> [pc |-> "idle", calls |-> 0]]

\* unit w calls detectLanguage(text): a cached language is returned at once,
\* otherwise the request is sent
DetectLanguage(w, text) ==
    /\ dl[w].pc \in {"idle", "returned", "thrown"}
    /\ dl[w].calls < MaxDetections
    /\ LET hash == hashText(text)
           called == [calls |-> dl[w].calls + 1, text |-> text, remote |-> FALSE,
                      result |-> <<>>, error |-> NoError]
       IN  dl' = [dl EXCEPT ![w] =
                     IF hash \in DOMAIN languageDetectionCache
                     THEN called @@ [pc |-> "returned"]
                               @@ [cached |-> languageDetectionCache[hash]]
                     ELSE called @@ [pc |-> "remote"] @@ [cached |-> <<>>]]
    /\ UNCHANGED <<retryVars, batchVars, fileVars, pureVars, progressVars,
                   languageDetectionCache>>

\* the request of unit w is answered with `content`: an empty or unsupported
\* code throws DETECTION_FAILED, a supported one is cached and returned
DetectionAnswered(w, content) ==
    /\ dl[w].pc = "remote"
    /\ LET detectedLang == toLowerCase(Trim(content))
           hash == hashText(dl[w].text)
       IN  IF InvalidLanguage(detectedLang)
           THEN /\ dl' = [dl EXCEPT ![w].pc = "thrown", ![w].remote = TRUE,
                                    ![w].error = DetectionError(DetectionFailed)]
                /\ UNCHANGED languageDetectionCache
           ELSE /\ dl' = [dl EXCEPT ![w].pc = "returned", ![w].remote = TRUE,
                                    ![w].result = detectedLang]
                /\ languageDetectionCache' =
                      [h \in DOMAIN languageDetectionCache \cup {hash} |->
                          IF h = hash THEN detectedLang ELSE languageDetectionCache[h]]
    /\ UNCHANGED <<retryVars, batchVars, fileVars, pureVars, progressVars>>

\* every attempt of the request of unit w rejects with `error`: withRetry
\* throws, the catch block passes an APIError on and wraps anything else
DetectionRejected(w, error) ==
    /\ dl[w].pc = "remote"
    /\ dl' = [dl EXCEPT ![w].pc = "thrown", ![w].remote = TRUE,
                        ![w].error = DetectionError(
                            withRetryThrows(withRetryEnter(config), error, config))]
    /\ UNCHANGED <<retryVars, batchVars, fileVars, pureVars, progressVars,
                   languageDetectionCache>>

DetectNext ==
    \/ \E w \in Workers : \E text \in DetectTexts : DetectLanguage(w, text)
    \/ \E w \in Workers : \E content \in Responses : DetectionAnswered(w, content)
    \/ \E w \in Workers : \E error \in DetectionErrors : DetectionRejected(w, error)

DetectSpec == DetectInit /\ [][DetectNext]_vars


\* ---------------------------------------- properties of the pure functions
\* C23: in the parallel layout without alignParagraphs the output is, for
\* each line index up to the longer of the two texts, the source line and the
\* translation line (the missing ones empty) in the configured order, all
\* joined by single newlines; "A\nB" and "X\nY" source-first give
\* "A\nX\nB\nY".
ParallelLayout ==
    call.fn = "formatBilingualContent" /\ call.mode.enabled
        /\ call.mode.layout = "parallel" /\ ~call.mode.alignParagraphs =>
        LET s == Split(call.source)
            t == Split(call.translation)
            n == Max(Len(s), Len(t))
            out == Split(call.output)
            sourceAt(i) == IF i <= Len(s) THEN s[i] ELSE <<>>
            translationAt(i) == IF i <= Len(t) THEN t[i] ELSE <<>>
        IN  /\ Len(out) = 2 * n
            /\ \A i \in 1 .. n :
                  IF call.mode.showSourceFirst
                  THEN out[2 * i - 1] = sourceAt(i) /\ out[2 * i] = translationAt(i)
                  ELSE out[2 * i - 1] = translationAt(i) /\ out[2 * i] = sourceAt(i)
            /\ call.source = <<"A", "\n", "B">> /\ call.translation = <<"X", "\n", "Y">>
                  /\ call.mode.showSourceFirst =>
                  call.output = <<"A", "\n", "X", "\n", "B", "\n", "Y">>

ParallelLayoutWitness ==
    /\ call.fn = "formatBilingualContent"
    /\ call.mode.enabled /\ call.mode.layout = "parallel"
    /\ ~call.mode.alignParagraphs /\ ~call.mode.showSourceFirst
    /\ call.source = <<"A", "\n", "B">>
    /\ call.translation = <<"X">>
    /\ call.output = <<"X", "\n", "A", "\n", "\n", "B">>

\* C24: the sequential layout is source, separator, translation when
\* showSourceFirst is set and translation, separator, source otherwise;
\* "A\nB", "X\nY" and "\n---\n" translation-first give "X\nY\n---\nA\nB".
SequentialLayout ==
    call.fn = "formatBilingualContent" /\ call.mode.enabled
        /\ call.mode.layout = "sequential" =>
        /\ call.mode.showSourceFirst =>
              call.output = call.source \o call.mode.separator \o call.translation
        /\ ~call.mode.showSourceFirst =>
              call.output = call.translation \o call.mode.separator \o call.source
        /\ call.source = <<"A", "\n", "B">> /\ call.translation = <<"X", "\n", "Y">>
              /\ call.mode.separator = <<"\n", "-", "-", "-", "\n">>
              /\ ~call.mode.showSourceFirst =>
              call.output = <<"X", "\n", "Y", "\n", "-", "-", "-", "\n", "A", "\n", "B">>

SequentialLayoutWitness ==
    /\ call.fn = "formatBilingualContent"
    /\ call.mode.enabled /\ call.mode.layout = "sequential"
    /\ ~call.mode.showSourceFirst
    /\ call.source = <<"A", "\n", "B">>
    /\ call.translation = <<"X", "\n", "Y">>
    /\ call.output = <<"X", "\n", "Y", "\n", "-", "-", "-", "\n", "A", "\n", "B">>

\* s starts with / ends with the text part
StartsWith(s, part) == Len(part) <= Len(s) /\ SubSeq(s, 1, Len(part)) = part
EndsWith(s, part) ==
    Len(part) <= Len(s) /\ SubSeq(s, Len(s) - Len(part) + 1, Len(s)) = part

\* C25: the assembled document is the metadata block (only with addMetadata),
\* then source and contentSeparator (only with keepOriginalContent and without
\* bilingual mode), then the translated content: the bilingual layout in
\* bilingual mode, the plain translation otherwise.
DocumentOrder ==
    call.fn = "assemble" =>
        LET cfg == call.cfg
            head == IF cfg.addMetadata
                    THEN <<"<!--", "\n", "meta", "\n", "-->", "\n">> ELSE <<>>
            original == IF cfg.keepOriginalContent /\ ~cfg.bilingualMode.enabled
                        THEN call.content \o cfg.contentSeparator ELSE <<>>
            body == IF cfg.bilingualMode.enabled
                    THEN formatBilingualContent(call.content, call.translatedContent,
                                                cfg.bilingualMode)
                    ELSE call.translatedContent
        IN  /\ call.output = head \o original \o body
            /\ StartsWith(call.output, head)
            /\ EndsWith(call.output, body)
            /\ Len(call.output) = Len(head) + Len(original) + Len(body)

DocumentOrderWitness ==
    /\ call.fn = "assemble"
    /\ call.cfg.addMetadata /\ call.cfg.keepOriginalContent
    /\ ~call.cfg.bilingualMode.enabled
    /\ call.content = <<"A">> /\ call.translatedContent = <<"X">>
    /\ call.output = <<"<!--", "\n", "meta", "\n", "-->", "\n", "A",
                       "\n", "\n", "-", "-", "-", "\n", "\n", "X">>

\* C26: the estimated cost is tokenCount * inputRate plus
\* ceil(tokenCount * 1.3) * outputRate, the output tokens being the
\* estimatedOutputTokens reported in TokenUsage.
CostUsesReportedOutputTokens ==
    call.fn = "calculateCost" =>
        call.output = 10 * call.tokenCount * call.inputRate
                      + 10 * EstimatedOutputTokens(call.tokenCount) * call.outputRate

\* C27: for fixed rates calculateCost is non-decreasing in the token count.
CostMonotone ==
    call.fn = "calculateCost" =>
        \A n1 \in 0 .. call.tokenCount :
            calculateCost(n1, call.inputRate, call.outputRate) <= call.output

CostMonotoneWitness ==
    /\ call.fn = "calculateCost"
    /\ call.tokenCount = 10
    /\ call.inputRate = 2 /\ call.outputRate = 10
    /\ call.output = 1500

\* the positions of text at which a run of letters and digits starts
RunStarts(text) ==
    {k \in 1 .. Len(text) :
        /\ text[k] \in EnglishAndNumbers
        /\ k = 1 \/ text[k - 1] \notin EnglishAndNumbers}

\* C28 (as claimed): the estimate is 2 per CJK-range character, 1 per maximal
\* run of ASCII letters and digits and 1 per other non-whitespace character;
\* whitespace contributes 0 and the estimate is never negative.
TokenEstimateIgnoresWhitespace ==
    call.fn = "estimateTokenCount" =>
        /\ call.output =
              2 * CountChars(call.text, ChineseChars)
              + Cardinality(RunStarts(call.text))
              + CountChars(call.text, {"!"})
        /\ call.output =
              2 * CountChars(call.text, ChineseChars \ Whitespace)
              + Cardinality(RunStarts(call.text))
              + CountChars(call.text, {"!"})
        /\ call.output >= 0

\* C28 (amended): the estimate is 2 per CJK-range character, the ideographic
\* space U+3000 included, 1 per maximal run of ASCII letters and digits and 1
\* per character that is neither of these nor whitespace; whitespace outside
\* the CJK ranges contributes 0; the estimate is never negative and depends
\* on the text alone.
TokenEstimate ==
    call.fn = "estimateTokenCount" =>
        /\ call.output =
              2 * CountChars(call.text, {"han"})
              + 2 * CountChars(call.text, {"u3000"})
              + Cardinality(RunStarts(call.text))
              + CountChars(call.text, {"!"})
        /\ call.output >= 0
        /\ call.output = estimateTokenCount(call.text)
        /\ (\A k \in 1 .. Len(call.text) : call.text[k] = " ") => call.output = 0

TokenEstimateWitness ==
    /\ call.fn = "estimateTokenCount"
    /\ call.text = <<"a", "u3000", "7">>
    /\ call.output = 4


\* ------------------------------------------------ properties of withRetry
\* the statuses the retry policy is documented to retry
RetryableStatuses == {429, 500, 503}

AllRetryableStatus(errs) ==
    \A k \in 1 .. Len(errs) : errs[k].status \in RetryableStatuses

\* a permanent failure in the words of the specification: neither one of the
\* retryable statuses nor a transient network error
PermanentKind(error) ==
    error.status \notin RetryableStatuses /\ error.sysCode \notin NetworkCodes

\* C5: an operation that fails with status 429, 500 or 503 at every attempt is
\* invoked exactly maxRetries times, never more, and withRetry then throws the
\* error raised by the last attempt.
RetryExhaustion ==
    AllRetryableStatus(rt.errs) /\ rt.pc # "returned" =>
        /\ rt.calls <= maxRetries(config)
        /\ rt.pc = "thrown" <=> rt.calls = maxRetries(config)
        /\ rt.pc = "thrown" =>
              /\ rt.thrown = rt.errs[Len(rt.errs)]
              /\ rt.thrown.att = maxRetries(config)

RetryExhaustionWitness ==
    /\ config.retryCount = 3
    /\ rt.pc = "thrown"
    /\ rt.calls = 3
    /\ AllRetryableStatus(rt.errs)
    /\ rt.thrown = HttpError(503, 3)

\* C6: an attempt that fails with a permanent kind of error (status 400, 401,
\* 402, 422, ...) is the last one: withRetry throws at once, without a backoff
\* wait after it; failing so at the first attempt, the operation is invoked
\* exactly once and no wait happens, whatever maxRetries is.
RetryShortCircuit ==
    \A k \in 1 .. Len(rt.errs) :
        PermanentKind(rt.errs[k]) =>
            /\ k = Len(rt.errs)
            /\ rt.pc = "thrown"
            /\ rt.thrown.api /\ rt.thrown.att = k
            /\ rt.calls = k
            /\ Len(rt.waits) = k - 1

RetryShortCircuitWitness ==
    /\ maxRetries(config) = 4
    /\ rt.pc = "thrown"
    /\ rt.calls = 1
    /\ rt.waits = <<>>
    /\ rt.errs[1].status = 401

\* C7: an attempt that fails with ECONNRESET, ETIMEDOUT or ECONNREFUSED while
\* attempts remain does not end withRetry: a backoff wait and another attempt
\* follow.
NetworkErrorRetried ==
    \A k \in 1 .. Len(rt.errs) :
        rt.errs[k].sysCode \in NetworkCodes /\ k < maxRetries(config) =>
            ~(rt.pc = "thrown" /\ Len(rt.errs) = k)

\* C8: the wait after the failed attempt of index i is
\* min(baseDelay * 2^i, maxDelay).
BackoffFormula ==
    \A k \in 1 .. Len(rt.waits) :
        rt.waits[k].ms =
            Min(baseDelay(config) * Pow2(rt.waits[k].i), maxDelay(config))

\* C9: every backoff wait is at most maxDelay, whatever baseDelay is, and no
\* wait follows the final attempt.
BackoffCeiling ==
    /\ \A k \in 1 .. Len(rt.waits) :
          /\ rt.waits[k].ms <= maxDelay(config)
          /\ rt.waits[k].i < maxRetries(config) - 1
    /\ rt.pc = "sleeping" => rt.delay <= maxDelay(config)
    /\ rt.pc = "thrown" => Len(rt.waits) < rt.calls

BackoffCeilingWitness ==
    /\ baseDelay(config) > maxDelay(config)
    /\ Len(rt.waits) >= 2
    /\ rt.pc = "thrown"
    /\ rt.calls = maxRetries(config)

\* a retryable failure in the words of the specification: rate limit, server
\* error, server overload, or a transient network error
RetryableKind(error) ==
    error.status \in RetryableStatuses \/ error.sysCode \in NetworkCodes

\* C10: after j < maxRetries attempts that all failed with a retryable kind of
\* error withRetry has not thrown and invokes the operation again; when that
\* attempt succeeds withRetry returns its value after exactly j + 1
\* invocations, and no error surfaces.
TransientAbsorbed ==
    LET j == Len(rt.errs)
    IN  (\A k \in 1 .. j : RetryableKind(rt.errs[k])) /\ j < maxRetries(config) =>
            /\ rt.pc # "thrown"
            /\ rt.thrown = NoError
            /\ rt.pc = "returned" => rt.calls = j + 1 /\ rt.value = 1
            /\ rt.pc \in {"loop", "sleeping"} => rt.calls = j

\* C30: the error a withRetry call throws is classified by the scheduler's
\* isRetryableError exactly as withRetry classified the failure it stems
\* from: retryable when withRetry gave up after retrying, permanent when
\* withRetry threw at once.
ClassificationAgrees ==
    rt.pc = "thrown" /\ rt.calls > 0 =>
        (isRetryableError(rt.thrown) <=> isRetryableError(handleAPIError(rt.lastError)))

\* one withRetry call has settled
Settled(r) == r.pc \in {"returned", "thrown"}

\* C39: for every configured retryCount N >= 0 one withRetry call invokes the
\* operation at least once and at most max(1, N) times.
InvocationsWithinRetryCount ==
    /\ rt.calls <= Max(1, config.retryCount)
    /\ Settled(rt) => rt.calls >= 1

\* the units whose task function has been started at least once
StartedUnits == {u \in Units : unit[u].starts > 0}

RECURSIVE AlignedLines(_, _, _, _)
AlignedLines(s, t, i, sourceFirst) ==
    IF i > Max(Len(s), Len(t)) THEN <<>>
    ELSE LET a == IF i <= Len(s) THEN s[i] ELSE <<>>
             b == IF i <= Len(t) THEN t[i] ELSE <<>>
             blank(l) == \A k \in 1 .. Len(l) : l[k] \in Whitespace
         IN  (IF blank(a) /\ blank(b) THEN <<(<<>>)>>
              ELSE IF sourceFirst THEN <<a, b>> ELSE <<b, a>>)
             \o AlignedLines(s, t, i + 1, sourceFirst)

\* C38: in the parallel layout with alignParagraphs, every index at which both
\* the source line and the translation line are blank (absent or whitespace
\* only) emits exactly one empty line, and every other index emits its two
\* lines as without alignParagraphs.
AlignedParagraphs ==
    call.fn = "formatBilingualContent" /\ call.mode.enabled
        /\ call.mode.layout = "parallel" /\ call.mode.alignParagraphs =>
        Split(call.output) = AlignedLines(Split(call.source), Split(call.translation),
                                          1, call.mode.showSourceFirst)
\* the second pair, a line of one space and an empty line, is collapsed
AlignedParagraphsWitness ==
    /\ call.fn = "formatBilingualContent"
    /\ call.mode.enabled /\ call.mode.layout = "parallel"
    /\ call.mode.alignParagraphs /\ call.mode.showSourceFirst
    /\ call.source = <<"A", "\n", " ">>
    /\ call.translation = <<"X", "\n">>
    /\ call.output = <<"A", "\n", "X", "\n">>

\* C40: for a directory input estimateUsage sums the tokens of exactly the
\* files translate enqueues for the same input and configuration, recursive
\* enumeration included: its inputTokens is the sum over the units of the batch.
EstimateCoversBatch ==
    call.fn = "estimateUsage" =>
        call.usage.inputTokens = TotalTokens(call.enqueued)

\* the values reported while the stream is consumed, in order
StreamReports == SelectSeq(pb.reports, LAMBDA r : r.status = "stream")

\* C37: every progress value reported while the stream is consumed is at most
\* 99 and the values are non-decreasing; 100 is reported only after the
\* destination write has completed.
ProgressCappedAndMonotone ==
    pb.pc # "idle" =>
        /\ \A k \in 1 .. Len(StreamReports) :
              /\ ~StreamReports[k].value.nan
              /\ StreamReports[k].value.num <= 99 * Scale(pb.tokenCount)
        /\ \A j, k \in 1 .. Len(StreamReports) :
              j < k => StreamReports[j].value.num <= StreamReports[k].value.num
        /\ \A k \in 1 .. Len(pb.reports) :
              pb.reports[k].value = Number(100, pb.tokenCount) => pb.written

\* the units that are inside writeFileContent or past it
WritingUnits == {u \in Workers : tf[u].pc \in {"writing", "written", "unlinked", "renamed"}}

\* C32: within one batch no two units write, delete or rename the same path
\* (temporary, destination or language-suffixed), for distinct source files
\* and also with autoRename.
NoSharedPath ==
    \A u, v \in WritingUnits :
        u # v => /\ tf[u].targetPath # tf[v].targetPath
                 /\ ~tf[u].raced

\* the three rejections of translateFile that precede every request
Rejections == {"UNSUPPORTED_TYPE", "FILE_TOO_LARGE", "EMPTY_FILE"}

\* C33: translateFile rejects in the order unsupported type, file too large,
\* empty content, and a unit rejected by one of the three causes no remote
\* request (detection or translation) and writes nothing.
RejectionOrder ==
    \A u \in Workers :
        LET f == tf[u]
            tooLarge == f.sizeMB > maxFileSize
            rejected == ~f.supported \/ tooLarge \/ (f.empty /\ ignoreEmptyFiles)
        IN  /\ f.pc \notin {"start", "killed"} =>
                  /\ ~f.supported => f.error = "UNSUPPORTED_TYPE"
                  /\ f.supported /\ tooLarge => f.error = "FILE_TOO_LARGE"
                  /\ f.supported /\ ~tooLarge /\ f.empty /\ ignoreEmptyFiles =>
                        f.error = "EMPTY_FILE"
                  /\ ~rejected => f.error \notin Rejections
                  /\ f.error \in Rejections => f.pc = "failed"
            /\ rejected =>
                  /\ ~f.requested
                  /\ f.prompt = Unresolved /\ f.metadata = Unresolved
                  /\ f.fd = NoFd
                  /\ f.targetPath = TargetPath(u)
                  /\ \A p \in DOMAIN disk : disk[p].by # u
\* an unsupported file above the size limit is rejected for its type, a
\* supported empty one above the limit for its size
RejectionOrderWitness ==
    /\ ~tf[1].supported /\ tf[1].sizeMB > maxFileSize
    /\ tf[1].pc = "failed" /\ tf[1].error = "UNSUPPORTED_TYPE"
    /\ tf[2].supported /\ tf[2].sizeMB > maxFileSize /\ tf[2].empty
    /\ tf[2].pc = "failed" /\ tf[2].error = "FILE_TOO_LARGE"

\* C34: when the stream fails after the streaming request was accepted, no
\* further request is made for that invocation: translateFile fails with that
\* error and writes neither the destination nor a temporary file.
StreamFailureIsFinal ==
    /\ [](\A u \in Workers :
            tf[u].error = "STREAM" =>
                /\ tf[u].pc = "failed"
                /\ tf[u].fd = NoFd
                /\ \A p \in DOMAIN disk : disk[p].by # u)
    /\ [][\A u \in Workers :
            tf[u].pc = "streaming" \/ tf[u].error = "STREAM" =>
                tf'[u].pc \notin {"detecting", "requesting"}]_vars
StreamFailureIsFinalWitness ==
    /\ tf[1].pc = "failed" /\ tf[1].error = "STREAM"
    /\ tf[2].pc = "done"

\* the calls of detectLanguage that threw
FailedDetections == {w \in Workers : dl[w].pc = "thrown"}

\* C35: whenever language detection fails for a unit (the remote call fails
\* for good or after exhausted retries, or the returned code is not a
\* supported language), the unit fails with the DETECTION_FAILED error, which
\* the scheduler does not re-queue.
DetectionFailureIsFinal ==
    \A w \in FailedDetections :
        /\ dl[w].error = DetectionFailed
        /\ ~isRetryableError(dl[w].error)

====
